---- MODULE Spec2Model ----
(***************************************************************************)
(* Edit-job orchestration of ApertureAI: the generative route              *)
(* (POST /api/generate/:id), the parameter route (POST                     *)
(* /api/natural-edit/:id), and the store tables they share (the Edit row,  *)
(* strength_cache, edit_history, the blob store).  One edit is modelled;   *)
(* every await of a handler is a point where other requests interleave.    *)
(* SpecDelete adds DELETE /api/edits/:id and the requests answered 400 or  *)
(* 404; SpecEditor is the browser's Editor page sending parameter edits    *)
(* one by one; SpecLive is Spec under the event loop's fairness.           *)
(***************************************************************************)
EXTENDS Integers, Sequences, FiniteSets, TLC

\* Total number of requests issued against the edit.
MaxAttempts == 2

\* Number of times the slider is dragged in a slider session.
MaxSliderRuns == 3

\* Largest width and height, in pixels, of the images that are padded.
MaxSide == 4

\* Milliseconds that pass while the generative attempts on two edits run.
MaxClock == 2

\* Number of requests sent about the ownership, the title and the images
\* of the guest's edit.
MaxVisits == 3

\* The handler invocations that may be under way at once; an invocation that
\* has returned is free for the next request.
Req == {1, 2}

\* Free-text prompts a generative request may carry (never empty: line 454).
Prompts == {"p1", "p2"}
\* Edit.prompt right after upload (routes.ts:79).
EmptyPrompt == ""
\* The title a parameter edit writes into Edit.prompt when no label is sent.
NatLabel == "Natural edit"
\* Labels a parameter edit may send as suggestionLabel.
Labels == {NatLabel}
\* effectStrength / strengthPercent values used by the requests.
Strengths == {50, 100}
\* Fingerprints: the JSON.stringify of the final Sharp parameters.
ParamKeys == {"k1", "k2"}
\* Image id of the upload; later images get 1, 2, ...
OriginalImageId == 0
\* An optional argument that was not passed.
Undefined == "undefined"
\* refined_prompt NULL or "" (both falsy).
NoRefined == <<>>

VARIABLES
  edit,          \* the Edit row
  strengthCache, \* rows of strength_cache for the edit
  editHistory,   \* rows of edit_history for the edit
  images,        \* ids present in the blob store
  imageInfo,     \* how each stored image was produced (history)
  nextImageId,   \* next fresh image id
  pc,            \* position of every request
  req,           \* body of every request
  snap,          \* the Edit row as each request read it
  loc,           \* locals of every request
  gh,            \* per-request history: writes made, calls made
  issued,        \* number of requests issued so far
  overlapped,    \* history: some request started while another was under way
  genCount,      \* images generated per strength since Edit.prompt last changed
  editExists,    \* the Edit row is in the edits table
  del,           \* the DELETE /api/edits/:id handler: position and locals
  editor,        \* the browser's Editor page: its React state and requests
  canvas,        \* one call of generateImageWithStrength: position and locals
  suggest,       \* suggestions_cache, the uploads and the suggestion requests
  executor,      \* Executor.execute on two edits: the temp directory, the calls
  account        \* ownership: Edit.userId and title, the claims, the answers

vars == <<edit, strengthCache, editHistory, images, imageInfo, nextImageId,
          pc, req, snap, loc, gh, issued, overlapped, genCount, editExists,
          del, editor, canvas, suggest, executor, account>>

\* The parts of the server that the requests on the edit leave alone.
elsewhere == <<canvas, suggest, executor, account>>

NoReq == [kind |-> "none", prompt |-> EmptyPrompt, strength |-> 50,
          clearCache |-> FALSE, refineFromCurrent |-> FALSE,
          params |-> Undefined, label |-> Undefined]
NoSnap == [currentImageId |-> OriginalImageId, prompt |-> EmptyPrompt,
           refinedPrompt |-> NoRefined]
NoLoc == [cached |-> -1, imageId |-> -1, nextSequence |-> 0, source |-> -1,
          key |-> Undefined]
NoGh == [wroteProcessing |-> FALSE, terminal |-> 0, generated |-> FALSE,
         hit |-> FALSE, alone |-> FALSE, again |-> -1, cc |-> FALSE,
         status |-> "none",
         result |-> -1]
NoDel == [pc |-> "idle", imageIds |-> {}, status |-> "none"]
\* null, for a piece of Editor state that holds an object.
Null == <<>>
\* The Editor when the page opens: no base parameters retained, the slider
\* never triggered (lastTriggeredStrength null, shown as -1) and standing at
\* 50, the preview panel hidden, no request sent.
NoEditor == [baseNaturalParams |-> Null, lastTriggeredStrength |-> -1,
             intensity |-> 50, panel |-> Null, log |-> {}]

\* What sharp could not decode, or could not produce.
NoImage == [readable |-> FALSE, w |-> 0, h |-> 0]
\* A PadInfo that has not been computed.
NoPad == [S |-> 0, left |-> 0, top |-> 0, width |-> 0, height |-> 0]
\* No call of generateImageWithStrength under way.
NoCanvas == [pc |-> "idle", source |-> NoImage, targetWidth |-> 0,
             targetHeight |-> 0, calls |-> <<>>, refined |-> FALSE,
             square |-> NoImage,
             pad |-> NoPad, returned |-> NoImage, targetPad |-> NoPad,
             out |-> NoImage, error |-> "none"]
\* No analysis made, no answer sent.
NoAnalysis == [title |-> "", natural |-> "", ai |-> ""]
NoResponse == [status |-> 0, natural |-> "", ai |-> ""]
\* A handler of GET /api/suggestions/:id that serves no request.
NoSuggestRequest == [pc |-> "idle", imageId |-> -1, analysis |-> NoAnalysis,
                     failed |-> FALSE, response |-> NoResponse]
\* No Edit row created by the upload.
NoEdit == [status |-> "none", originalImageId |-> -1, currentImageId |-> -1,
           title |-> "", natural |-> "", ai |-> ""]
\* POST /api/upload before a request arrives.
NoUpload == [pc |-> "idle", imageId |-> -1, analysis |-> NoAnalysis,
             failed |-> FALSE, status |-> 0, edit |-> NoEdit]
\* An empty suggestions_cache, nothing saved to it (history), no request.
NoSuggest == [cache |-> {}, saves |-> <<>>, issued |-> 0,
              q |-> [r \in Req |-> NoSuggestRequest], upload |-> NoUpload]
\* The edits on which generative attempts run side by side.
EditIds == {1, 2}
\* No file, no image.
Nothing == 0
\* Executor.execute not called for an edit.
NoExecution == [pc |-> "idle", path |-> -1, sent |-> Nothing,
                overwrote |-> Nothing, unlinked |-> Nothing,
                result |-> "none"]
\* The clock at 0, an empty temp directory (os.tmpdir() holds, under the
\* name edit-<t>.png, the padded image of an edit), no call of the Executor.
NoExecutor == [now |-> 0, tmp |-> [t \in 0..MaxClock |-> Nothing],
               of |-> [e \in EditIds |-> NoExecution]]
\* The users with an account, and req.user of a request without a session.
Users == {1, 2}
Anonymous == 0
\* Edit.userId NULL: the edit was uploaded by a guest (routes.ts:86).
NoUser == 0
\* Edit.title as the upload left it, and the titles a rename may carry (""
\* is refused at routes.ts:366).
UploadTitle == "Uploaded Image"
Titles == {"", "Sunset", "Portrait"}
\* The claim handler of a user before a request arrives.
NoClaim == [pc |-> "idle", userId |-> NoUser, status |-> 0]
\* No request answered.
NoAnswer == [endpoint |-> "none", session |-> Anonymous, status |-> 0]
\* The guest's edit: unowned, no claim under way, nothing answered; granted
\* and open are history: the users a claim has answered success, and what
\* the requests without a session were answered and whether they changed
\* the store.
NoAccount == [userId |-> NoUser, title |-> UploadTitle,
              claim |-> [u \in Users |-> NoClaim], last |-> NoAnswer,
              granted |-> {}, owners |-> <<>>, open |-> {}, issued |-> 0]

\* POST /api/upload has created the edit.
Init ==
  /\ edit = [currentImageId |-> OriginalImageId, prompt |-> EmptyPrompt,
             refinedPrompt |-> NoRefined, effectStrength |-> 50,
             status |-> "pending"]
  /\ strengthCache = {}
  /\ editHistory = {}
  /\ images = {OriginalImageId}
  /\ imageInfo = <<>>
  /\ nextImageId = 1
  /\ pc = [r \in Req |-> "idle"]
  /\ req = [r \in Req |-> NoReq]
  /\ snap = [r \in Req |-> NoSnap]
  /\ loc = [r \in Req |-> NoLoc]
  /\ gh = [r \in Req |-> NoGh]
  /\ issued = 0
  /\ overlapped = FALSE
  /\ genCount = [s \in Strengths |-> 0]
  /\ editExists = TRUE
  /\ del = NoDel
  /\ editor = NoEditor
  /\ canvas = NoCanvas
  /\ suggest = NoSuggest
  /\ executor = NoExecutor
  /\ account = NoAccount

\* JavaScript truthiness of Edit.refinedPrompt (null and "" are falsy).
Truthy(refined) == refined # NoRefined

\* What PromptEngineer.refine makes of a user prompt: a text derived from it
\* (or, when refinement fails, the prompt itself); only its origin is kept.
Refine(p) == <<p>>

\* An update that leaves a completed edit as it is.
UpdateEditResult_KeepCompleted(e, currentImageId, status, opt) ==
  IF e.status = "completed" THEN e
  ELSE [currentImageId |-> currentImageId, status |-> status] @@ opt @@ e

\* DatabaseStorage.updateEditResult: status and currentImageId are always
\* written; of prompt, refinedPrompt and effectStrength only those that were
\* passed (the fields of opt).  The UPDATE matches no row once the edit has
\* been deleted.
UpdateEditResult(e, currentImageId, status, opt) ==
  LET updateData == [currentImageId |-> currentImageId, status |-> status] @@ opt
  IN  IF editExists THEN updateData @@ e ELSE e

\* DatabaseStorage.getEdit, as far as the handlers use the row.
GetEdit == [currentImageId |-> edit.currentImageId, prompt |-> edit.prompt,
            refinedPrompt |-> edit.refinedPrompt]

\* DatabaseStorage.getCachedImageForStrength: the rows the query matches
\* (the handler takes the first one the store returns).
GetCachedImageForStrength(strength) ==
  {c \in strengthCache : c.strength = strength}

\* A getCachedNaturalEdit whose strength comparison is inverted.
GetCachedNaturalEdit_OtherStrength(params, strength) ==
  {h \in editHistory : h.params = params /\ h.effectStrength # strength}

\* DatabaseStorage.getCachedNaturalEdit: the rows the query matches.
GetCachedNaturalEdit(params, strength) ==
  {h \in editHistory : h.params = params /\ h.effectStrength = strength}

\* The largest element of a set of numbers.
Max(S) == CHOOSE x \in S : \A y \in S : y <= x

\* A sequence number that repeats the largest one in the ledger.
GetNextSequence_Repeat ==
  IF editHistory # {} THEN Max({h.sequence : h \in editHistory}) ELSE 1

\* DatabaseStorage.getNextSequence: 1 + the largest sequence, or 1.
GetNextSequence ==
  IF editHistory # {} THEN Max({h.sequence : h \in editHistory}) + 1 ELSE 1

\* A request is under way: it has read the Edit row and not yet finished.
InFlight(r) == pc[r] \notin {"idle", "done"}

\* A new request is taken by the first free handler invocation.
MayStart(r) ==
  /\ issued < MaxAttempts
  /\ ~InFlight(r)
  /\ \A q \in Req : q < r => InFlight(q)

\* History of a starting request: it runs alone unless another is under
\* way, and a request it overlaps no longer runs alone.
StartAlone(r) ==
  [q \in Req |-> IF q = r
                 THEN [NoGh EXCEPT !.alone = \A o \in Req : ~InFlight(o)]
                 ELSE IF InFlight(q) THEN [gh[q] EXCEPT !.alone = FALSE]
                 ELSE gh[q]]

\* The delete handler is under way.
DelInFlight == del.pc \notin {"idle", "done"}

\* The bookkeeping of a starting request.
Issue(r) ==
  /\ issued' = issued + 1
  /\ overlapped' = (overlapped \/ DelInFlight \/ \E o \in Req : InFlight(o))
  /\ UNCHANGED <<editExists, del, editor,
               elsewhere>>

\* The handler returns: its locals are gone.
Finish(r) ==
  /\ pc' = [pc EXCEPT ![r] = "done"]
  /\ req' = [req EXCEPT ![r] = NoReq]
  /\ snap' = [snap EXCEPT ![r] = NoSnap]
  /\ loc' = [loc EXCEPT ![r] = NoLoc]

\* The generate counters start again when a write changes Edit.prompt.
GenCountAfter(newEdit) ==
  IF newEdit.prompt # edit.prompt THEN [s \in Strengths |-> 0] ELSE genCount

----
\* POST /api/generate/:id

\* Line 461: the strength cache is cleared when the request asks for it or
\* carries a prompt other than the stored one.
NeedsPurge(clearCache, prompt, storedPrompt) ==
  clearCache \/ prompt # storedPrompt

\* History: the request repeats the generative request the edit last
\* completed (same prompt, same strength); the value is the image that
\* request ended with, or -1.
Repeats(prompt, strength) ==
  IF /\ edit.status = "completed"
     /\ edit.prompt = prompt
     /\ edit.effectStrength = strength
  THEN edit.currentImageId ELSE -1

\* Lines 453-461: the body is read, the Edit row is fetched, and the handler
\* decides whether the strength cache must be cleared.
GenRequest(r, prompt, strength, clearCache, refineFromCurrent) ==
  /\ MayStart(r)
  /\ editExists
  /\ Issue(r)
  /\ req' = [req EXCEPT ![r] = [kind |-> "gen", prompt |-> prompt,
               strength |-> strength, clearCache |-> clearCache,
               refineFromCurrent |-> refineFromCurrent,
               params |-> Undefined, label |-> Undefined]]
  /\ snap' = [snap EXCEPT ![r] = GetEdit]
  /\ gh' = [StartAlone(r) EXCEPT ![r].again = Repeats(prompt, strength),
                                 ![r].cc = clearCache]
  /\ pc' = [pc EXCEPT ![r] =
              IF NeedsPurge(clearCache, prompt, edit.prompt) THEN "gPurge"
              ELSE "gProcessing"]
  /\ loc' = [loc EXCEPT ![r] = NoLoc]
  /\ UNCHANGED <<edit, strengthCache, editHistory, images, imageInfo,
                 nextImageId, genCount>>

\* Line 463: deleteStrengthCacheForEdit.
GenPurge(r) ==
  /\ pc[r] = "gPurge"
  /\ strengthCache' = {}
  /\ pc' = [pc EXCEPT ![r] = "gProcessing"]
  /\ UNCHANGED <<edit, editHistory, images, imageInfo, nextImageId, req,
                 snap, loc, gh, genCount>>
  /\ UNCHANGED <<issued, overlapped, editExists, del, editor,
               elsewhere>>

\* Line 472: status becomes processing; currentImageId and refinedPrompt are
\* written from the row read at line 456.
GenSetProcessing(r) ==
  /\ pc[r] = "gProcessing"
  /\ LET e == UpdateEditResult(edit, snap[r].currentImageId, "processing",
                 IF Truthy(snap[r].refinedPrompt)
                 THEN [prompt |-> req[r].prompt,
                       refinedPrompt |-> snap[r].refinedPrompt,
                       effectStrength |-> req[r].strength]
                 ELSE [prompt |-> req[r].prompt,
                       effectStrength |-> req[r].strength])
     IN /\ edit' = e
        /\ genCount' = GenCountAfter(e)
  /\ gh' = [gh EXCEPT ![r].wroteProcessing = TRUE]
  /\ pc' = [pc EXCEPT ![r] = "gProbe"]
  /\ UNCHANGED <<strengthCache, editHistory, images, imageInfo, nextImageId,
                 req, snap, loc>>
  /\ UNCHANGED <<issued, overlapped, editExists, del, editor,
               elsewhere>>

\* Lines 477-478: the strength cache is probed.
GenProbe(r) ==
  /\ pc[r] = "gProbe"
  /\ LET rows == GetCachedImageForStrength(req[r].strength)
     IN IF rows # {}
        THEN \E c \in rows :
               /\ loc' = [loc EXCEPT ![r].cached = c.imageId]
               /\ gh' = [gh EXCEPT ![r].hit = TRUE]
               /\ pc' = [pc EXCEPT ![r] = "gHit"]
        ELSE /\ loc' = [loc EXCEPT ![r].source =
                          IF req[r].refineFromCurrent
                          THEN snap[r].currentImageId ELSE OriginalImageId]
             /\ pc' = [pc EXCEPT ![r] = "gGenerate"]
             /\ UNCHANGED gh
  /\ UNCHANGED <<edit, strengthCache, editHistory, images, imageInfo,
                 nextImageId, req, snap, genCount>>
  /\ UNCHANGED <<issued, overlapped, editExists, del, editor,
               elsewhere>>

\* Lines 481-484: a hit completes the edit with the cached image.
GenHit(r) ==
  /\ pc[r] = "gHit"
  /\ LET e == UpdateEditResult(edit, loc[r].cached, "completed",
                 [prompt |-> req[r].prompt,
                  refinedPrompt |-> IF Truthy(snap[r].refinedPrompt)
                                    THEN snap[r].refinedPrompt
                                    ELSE Refine(req[r].prompt),
                  effectStrength |-> req[r].strength])
     IN /\ edit' = e
        /\ genCount' = GenCountAfter(e)
  /\ gh' = [gh EXCEPT ![r].terminal = @ + 1, ![r].status = "completed",
                      ![r].result = loc[r].cached]
  /\ Finish(r)
  /\ UNCHANGED <<strengthCache, editHistory, images, imageInfo, nextImageId>>
  /\ UNCHANGED <<issued, overlapped, editExists, del, editor,
               elsewhere>>

\* The prompt handed to generateImageWithStrength (lines 499-521): the stored
\* refined prompt when there is one, else the request's prompt.
PromptToGenerate(r) ==
  IF Truthy(snap[r].refinedPrompt) THEN snap[r].refinedPrompt
  ELSE Refine(req[r].prompt)

\* Lines 493-529: the source is loaded, the generator is called and, when it
\* answers, the result is saved to the blob store under a fresh id.
GenGenerateOk(r) ==
  /\ pc[r] = "gGenerate"
  /\ loc[r].source \in images
  /\ images' = images \cup {nextImageId}
  /\ imageInfo' = Append(imageInfo,
        [reqPrompt |-> req[r].prompt, genPrompt |-> PromptToGenerate(r),
         source |-> loc[r].source])
  /\ nextImageId' = nextImageId + 1
  /\ loc' = [loc EXCEPT ![r].imageId = nextImageId]
  /\ gh' = [gh EXCEPT ![r].generated = TRUE]
  /\ genCount' = [genCount EXCEPT ![req[r].strength] = @ + 1]
  /\ pc' = [pc EXCEPT ![r] = "gCache"]
  /\ UNCHANGED <<edit, strengthCache, editHistory, req, snap>>
  /\ UNCHANGED <<issued, overlapped, editExists, del, editor,
               elsewhere>>

\* Lines 493-524 when they throw: the source image is gone, or the generator
\* fails, refuses or times out.
GenGenerateFail(r) ==
  /\ pc[r] = "gGenerate"
  /\ pc' = [pc EXCEPT ![r] = "gFail"]
  /\ UNCHANGED <<edit, strengthCache, editHistory, images, imageInfo,
                 nextImageId, req, snap, loc, gh, genCount>>
  /\ UNCHANGED <<issued, overlapped, editExists, del, editor,
               elsewhere>>

\* A saveCachedImage whose insert never reaches the table.
SaveCachedImage_Lost(row) == strengthCache

\* DatabaseStorage.saveCachedImage: a plain insert.
SaveCachedImage(row) == strengthCache \cup {row}

\* Lines 535-539: the result is inserted into the strength cache.
GenSaveCache(r) ==
  /\ pc[r] = "gCache"
  /\ strengthCache' = SaveCachedImage([strength |-> req[r].strength,
                                       imageId |-> loc[r].imageId])
  /\ pc' = [pc EXCEPT ![r] = "gComplete"]
  /\ UNCHANGED <<edit, editHistory, images, imageInfo, nextImageId, req,
                 snap, loc, gh, genCount>>
  /\ UNCHANGED <<issued, overlapped, editExists, del, editor,
               elsewhere>>

\* Line 542: the edit is completed with the new image.
GenComplete(r) ==
  /\ pc[r] = "gComplete"
  /\ LET e == UpdateEditResult(edit, loc[r].imageId, "completed",
                 [prompt |-> req[r].prompt,
                  refinedPrompt |-> PromptToGenerate(r),
                  effectStrength |-> req[r].strength])
     IN /\ edit' = e
        /\ genCount' = GenCountAfter(e)
  /\ gh' = [gh EXCEPT ![r].terminal = @ + 1, ![r].status = "completed",
                      ![r].result = loc[r].imageId]
  /\ Finish(r)
  /\ UNCHANGED <<strengthCache, editHistory, images, imageInfo, nextImageId>>
  /\ UNCHANGED <<issued, overlapped, editExists, del, editor,
               elsewhere>>

\* Line 551 (catch): status becomes failed; currentImageId is written from
\* the row read at line 456.
GenFail(r) ==
  /\ pc[r] = "gFail"
  /\ edit' = UpdateEditResult(edit, snap[r].currentImageId, "failed", <<>>)
  /\ gh' = [gh EXCEPT ![r].terminal = @ + 1, ![r].status = "failed"]
  /\ Finish(r)
  /\ UNCHANGED <<strengthCache, editHistory, images, imageInfo, nextImageId,
                 genCount>>
  /\ UNCHANGED <<issued, overlapped, editExists, del, editor,
               elsewhere>>

----
\* POST /api/natural-edit/:id

\* Lines 195-228: the body is read (a request without params and without a
\* prompt is answered 400 before this), the Edit row is fetched and the source
\* image is chosen.  params is a fingerprint, or Undefined for a prompt-driven
\* request.
NatRequest(r, params, strength, refineFromCurrent, label) ==
  /\ MayStart(r)
  /\ editExists
  /\ Issue(r)
  /\ req' = [req EXCEPT ![r] = [kind |-> "nat", prompt |-> EmptyPrompt,
               strength |-> strength, clearCache |-> FALSE,
               refineFromCurrent |-> refineFromCurrent,
               params |-> params, label |-> label]]
  /\ snap' = [snap EXCEPT ![r] = GetEdit]
  /\ loc' = [loc EXCEPT ![r] = [NoLoc EXCEPT !.source =
               IF refineFromCurrent THEN edit.currentImageId
               ELSE OriginalImageId]]
  /\ gh' = StartAlone(r)
  /\ pc' = [pc EXCEPT ![r] = "nLoad"]
  /\ UNCHANGED <<edit, strengthCache, editHistory, images, imageInfo,
                 nextImageId, genCount>>

\* Lines 229-247: the source image is loaded (404 when it is gone) and the
\* final parameters are fixed: the ones sent, or the ones
\* analyzePromptToSharpParams infers from the prompt.
NatLoad(r) ==
  /\ pc[r] = "nLoad"
  /\ IF loc[r].source \notin images
     THEN /\ Finish(r)
          /\ gh' = [gh EXCEPT ![r].status = "rejected"]
     ELSE /\ \E k \in ParamKeys :
               /\ req[r].params # Undefined => k = req[r].params
               /\ loc' = [loc EXCEPT ![r].key = k]
          /\ pc' = [pc EXCEPT ![r] = "nProbe"]
          /\ UNCHANGED <<req, snap, gh>>
  /\ UNCHANGED <<edit, strengthCache, editHistory, images, imageInfo,
                 nextImageId, genCount>>
  /\ UNCHANGED <<issued, overlapped, editExists, del, editor,
               elsewhere>>

\* Lines 251-252: the ledger is probed with (fingerprint, strength).
NatProbe(r) ==
  /\ pc[r] = "nProbe"
  /\ LET rows == GetCachedNaturalEdit(loc[r].key, req[r].strength)
     IN IF rows # {}
        THEN \E h \in rows :
               /\ loc' = [loc EXCEPT ![r].cached = h.imageId]
               /\ gh' = [gh EXCEPT ![r].hit = TRUE]
               /\ pc' = [pc EXCEPT ![r] = "nHit"]
        ELSE /\ pc' = [pc EXCEPT ![r] = "nApply"]
             /\ UNCHANGED <<loc, gh>>
  /\ UNCHANGED <<edit, strengthCache, editHistory, images, imageInfo,
                 nextImageId, req, snap, genCount>>
  /\ UNCHANGED <<issued, overlapped, editExists, del, editor,
               elsewhere>>

\* The optional columns a parameter edit writes (lines 260-262, 305-307).
NatOpt(r) == [prompt |-> req[r].label, refinedPrompt |-> NoRefined,
              effectStrength |-> req[r].strength]

\* Lines 256-273: a hit completes the edit with the cached image.
NatHit(r) ==
  /\ pc[r] = "nHit"
  /\ LET e == UpdateEditResult(edit, loc[r].cached, "completed", NatOpt(r))
     IN /\ edit' = e
        /\ genCount' = GenCountAfter(e)
  /\ gh' = [gh EXCEPT ![r].terminal = @ + 1, ![r].status = "completed",
                      ![r].result = loc[r].cached]
  /\ Finish(r)
  /\ UNCHANGED <<strengthCache, editHistory, images, imageInfo, nextImageId>>
  /\ UNCHANGED <<issued, overlapped, editExists, del, editor,
               elsewhere>>

\* Lines 279-287: the parameters are applied and the result is saved to the
\* blob store under a fresh id.
NatApplyOk(r) ==
  /\ pc[r] = "nApply"
  /\ images' = images \cup {nextImageId}
  /\ imageInfo' = Append(imageInfo,
        [reqPrompt |-> EmptyPrompt, genPrompt |-> NoRefined,
         source |-> loc[r].source])
  /\ nextImageId' = nextImageId + 1
  /\ loc' = [loc EXCEPT ![r].imageId = nextImageId]
  /\ pc' = [pc EXCEPT ![r] = "nSequence"]
  /\ UNCHANGED <<edit, strengthCache, editHistory, req, snap, gh, genCount>>
  /\ UNCHANGED <<issued, overlapped, editExists, del, editor,
               elsewhere>>

\* Lines 279-284 when applySharpParams throws: the catch at line 317 answers
\* 500 and writes nothing.
NatApplyFail(r) ==
  /\ pc[r] = "nApply"
  /\ gh' = [gh EXCEPT ![r].status = "error"]
  /\ Finish(r)
  /\ UNCHANGED <<edit, strengthCache, editHistory, images, imageInfo,
                 nextImageId, genCount>>
  /\ UNCHANGED <<issued, overlapped, editExists, del, editor,
               elsewhere>>

\* Line 290: getNextSequence reads the ledger.
NatNextSequence(r) ==
  /\ pc[r] = "nSequence"
  /\ loc' = [loc EXCEPT ![r].nextSequence = GetNextSequence]
  /\ pc' = [pc EXCEPT ![r] = "nInsert"]
  /\ UNCHANGED <<edit, strengthCache, editHistory, images, imageInfo,
                 nextImageId, req, snap, gh, genCount>>
  /\ UNCHANGED <<issued, overlapped, editExists, del, editor,
               elsewhere>>

\* An insert into edit_history that stores nothing.
SaveNaturalEditHistory_Lost(row) == editHistory

\* DatabaseStorage.saveNaturalEditHistory: a plain insert.
SaveNaturalEditHistory(row) == editHistory \cup {row}

\* Lines 291-297: the entry is inserted with the sequence read before.
NatSaveHistory(r) ==
  /\ pc[r] = "nInsert"
  /\ editHistory' = SaveNaturalEditHistory(
        [params |-> loc[r].key, effectStrength |-> req[r].strength,
         imageId |-> loc[r].imageId, sequence |-> loc[r].nextSequence])
  /\ pc' = [pc EXCEPT ![r] = "nComplete"]
  /\ UNCHANGED <<edit, strengthCache, images, imageInfo, nextImageId, req,
                 snap, loc, gh, genCount>>
  /\ UNCHANGED <<issued, overlapped, editExists, del, editor,
               elsewhere>>

\* Lines 301-308: the edit is completed with the new image.
NatComplete(r) ==
  /\ pc[r] = "nComplete"
  /\ LET e == UpdateEditResult(edit, loc[r].imageId, "completed", NatOpt(r))
     IN /\ edit' = e
        /\ genCount' = GenCountAfter(e)
  /\ gh' = [gh EXCEPT ![r].terminal = @ + 1, ![r].status = "completed",
                      ![r].result = loc[r].imageId]
  /\ Finish(r)
  /\ UNCHANGED <<strengthCache, editHistory, images, imageInfo, nextImageId>>
  /\ UNCHANGED <<issued, overlapped, editExists, del, editor,
               elsewhere>>

----
\* Requests answered 400 or 404 before the handler does anything else.

\* POST /api/generate/:id without a prompt (line 454) or for an edit that is
\* not in the table (line 457).
GenReject(r, prompt) ==
  /\ MayStart(r)
  /\ (prompt = EmptyPrompt \/ ~editExists)
  /\ Issue(r)
  /\ gh' = [StartAlone(r) EXCEPT ![r].status = "rejected"]
  /\ Finish(r)
  /\ UNCHANGED <<edit, strengthCache, editHistory, images, imageInfo,
                 nextImageId, genCount>>

\* POST /api/natural-edit/:id with neither params nor a prompt (lines
\* 215-217) or for an edit that is not in the table (lines 221-223).
NatReject(r, valid) ==
  /\ MayStart(r)
  /\ (~valid \/ ~editExists)
  /\ Issue(r)
  /\ gh' = [StartAlone(r) EXCEPT ![r].status = "rejected"]
  /\ Finish(r)
  /\ UNCHANGED <<edit, strengthCache, editHistory, images, imageInfo,
                 nextImageId, genCount>>

----
\* DELETE /api/edits/:id

\* What the delete handler never touches.
DelUnchanged == UNCHANGED <<edit, imageInfo, nextImageId, pc, req, snap, loc,
                            genCount, editor, elsewhere>>

\* Lines 388-405: the Edit row is fetched (404 when it is gone) and its
\* original and current image are noted for deletion.
DelRequest ==
  /\ issued < MaxAttempts
  /\ ~DelInFlight
  /\ issued' = issued + 1
  /\ overlapped' = (overlapped \/ \E o \in Req : InFlight(o))
  /\ gh' = [q \in Req |-> IF InFlight(q) THEN [gh[q] EXCEPT !.alone = FALSE]
                          ELSE gh[q]]
  /\ del' = IF editExists
            THEN [pc |-> "dCache", status |-> "none",
                  imageIds |-> {OriginalImageId, edit.currentImageId}]
            ELSE [pc |-> "done", status |-> "rejected", imageIds |-> {}]
  /\ DelUnchanged
  /\ UNCHANGED <<strengthCache, editHistory, images, editExists>>

\* Lines 394, 407-409: getStrengthCacheForEdit; the cached images are noted.
DelReadCache ==
  /\ del.pc = "dCache"
  /\ del' = [del EXCEPT !.pc = "dImages",
               !.imageIds = @ \cup {c.imageId : c \in strengthCache}]
  /\ DelUnchanged
  /\ UNCHANGED <<strengthCache, editHistory, images, editExists, gh, issued,
                 overlapped>>

\* ImageStorage.deleteImage for each id of a set: the files that are there
\* and that the store manages to remove are gone.
DeleteImages(gone) == images \ gone

\* Lines 397-423: getEditHistoryForEdit, then deleteImage is called for every
\* noted image without await.  The Promise it returns is truthy whatever the
\* outcome, so failedDeletes stays empty and the handler goes on; which of
\* the files are really removed is up to the store.
DelImages ==
  /\ del.pc = "dImages"
  /\ LET imageIds == del.imageIds \cup {h.imageId : h \in editHistory}
     IN \E gone \in SUBSET imageIds :
          /\ images' = DeleteImages(gone)
          /\ del' = [del EXCEPT !.pc = "dPurgeCache", !.imageIds = imageIds]
  /\ DelUnchanged
  /\ UNCHANGED <<strengthCache, editHistory, editExists, gh, issued,
                 overlapped>>

\* Line 427: deleteStrengthCacheForEdit.
DelPurgeCache ==
  /\ del.pc = "dPurgeCache"
  /\ strengthCache' = {}
  /\ del' = [del EXCEPT !.pc = "dPurgeHistory"]
  /\ DelUnchanged
  /\ UNCHANGED <<editHistory, images, editExists, gh, issued, overlapped>>

\* Line 430: deleteEditHistoryForEdit.
DelPurgeHistory ==
  /\ del.pc = "dPurgeHistory"
  /\ editHistory' = {}
  /\ del' = [del EXCEPT !.pc = "dEdit"]
  /\ DelUnchanged
  /\ UNCHANGED <<strengthCache, images, editExists, gh, issued, overlapped>>

\* Lines 433-434: deleteEdit; the handler answers "Deleted successfully".
DelEdit ==
  /\ del.pc = "dEdit"
  /\ editExists' = FALSE
  /\ del' = [pc |-> "done", status |-> "deleted", imageIds |-> {}]
  /\ DelUnchanged
  /\ UNCHANGED <<strengthCache, editHistory, images, gh, issued, overlapped>>

\* Lines 435-438: a store call of the handler throws; the catch answers 500
\* and the handler stops where it is.
DelError ==
  /\ del.pc \in {"dCache", "dImages", "dPurgeCache", "dPurgeHistory", "dEdit"}
  /\ del' = [pc |-> "done", status |-> "error", imageIds |-> {}]
  /\ DelUnchanged
  /\ UNCHANGED <<strengthCache, editHistory, images, editExists, gh, issued,
                 overlapped>>

----
\* The Editor page of the browser (src/unnamed/part_001) and the parameter
\* route as one client sees it.  Numbers are kept in tenths: 15 is 150 and
\* 0.5 is 5.

\* The six fields of SharpParams, in the order in which the code lists them
\* whenever it builds the object itself (openai.ts:829-836, Editor lines
\* 189-196 and 437-444).
Fields == <<"brightness", "contrast", "saturation", "hue", "sharpen", "noise">>
FieldSet == {Fields[i] : i \in DOMAIN Fields}

\* Orders in which a suggestion coming from the vision model may list the
\* fields of its params (routes.ts:602 passes them through as they are).
Listings == {Fields,
             <<"contrast", "brightness", "saturation", "hue", "sharpen",
               "noise">>}

\* The adjustment vectors the requests are made of.
Vector(b, c, sh) ==
  [f \in FieldSet |-> CASE f = "brightness" -> b
                        [] f = "contrast" -> c
                        [] f = "sharpen" -> sh
                        [] OTHER -> 0]
Vectors == {Vector(b, c, sh) : b \in {0, 5, 10}, c \in {0, -30}, sh \in {0, 5}}
ZeroVector == Vector(0, 0, 0)

\* Positions of the strength slider.
EditorStrengths == {50, 51, 100}

\* A JavaScript object: its <<key, value>> pairs in insertion order.
SharpObject(v, order) == [i \in DOMAIN order |-> <<order[i], v[order[i]]>>]

\* o.f || 0
Get(o, f) ==
  IF \E i \in DOMAIN o : o[i][1] = f
  THEN o[CHOOSE i \in DOMAIN o : o[i][1] = f][2]
  ELSE 0

\* The six numeric field values of an object.
ValuesOf(o) == [f \in FieldSet |-> Get(o, f)]

\* A rounding to the nearest even integer.
Round_Coarse(n, d) == 2 * ((n + d) \div (2 * d))

\* Math.round(n / d) for d > 0: the nearest integer, halves upwards.  (For
\* the vectors and strengths used here the double product is never within
\* rounding error of a half.)
Round(n, d) == (2 * n + d) \div (2 * d)

\* A scaling by strength / 100 instead of strength / 50.
ScaleField_Percent(f, x, strength) ==
  IF f = "sharpen" THEN Round(x * strength, 100)
  ELSE 10 * Round(x * strength, 1000)

\* One field of scaledParams (Editor lines 188-196, 436-444), with
\* strengthFactor = strength / 50: Math.round(x * strengthFactor), and for
\* sharpen Math.round(x * strengthFactor * 10) / 10.
ScaleField(f, x, strength) ==
  IF f = "sharpen" THEN Round(x * strength, 50)
  ELSE 10 * Round(x * strength, 500)

\* scaledParams: the six fields, listed in the order of Fields.
ScaleParams(o, strength) ==
  [i \in DOMAIN Fields |->
     <<Fields[i], ScaleField(Fields[i], Get(o, Fields[i]), strength)>>]

\* How JSON.stringify prints a number: sign, integer part, and the decimal
\* digit when there is one.
NumberToString(x) ==
  LET a == IF x < 0 THEN -x ELSE x
      digits == IF a % 10 = 0 THEN <<a \div 10>> ELSE <<a \div 10, ".", a % 10>>
  IN  IF x < 0 THEN <<"-">> \o digits ELSE digits

\* JSON.stringify of an object: its keys and printed values in insertion
\* order.
Stringify(o) == [i \in DOMAIN o |-> <<o[i][1], NumberToString(o[i][2])>>]

\* What the Editor keeps of a request it has sent (history): who sent it, the
\* vector it scaled and at which strength (when it scaled one), the values and
\* fingerprint of the final parameters, the strength of the cache key, and
\* whether the answer came from the ledger.
LogEntry(source, scaled, base, params, strength, cached) ==
  [seq |-> issued + 1, source |-> source, scaled |-> scaled, base |-> base,
   values |-> ValuesOf(params), key |-> Stringify(params),
   strength |-> strength, cached |-> cached]

\* A panel row that cuts the product off instead of rounding it.
PanelField_Truncated(f, x, intensity) ==
  IF f = "sharpen" THEN (x * intensity) \div 50
  ELSE 10 * ((x * intensity) \div 500)

\* One row of the preview panel (Editor lines 701-709), with factor =
\* intensity / 50: Math.round(x * factor), and for sharpen
\* Math.round(x * factor * 10) / 10.
PanelField(f, x, intensity) ==
  IF f = "sharpen" THEN (2 * x * intensity + 50) \div 100
  ELSE 10 * ((2 * x * intensity + 500) \div 1000)

\* The preview panel (Editor lines 699-709): shown once base parameters are
\* retained, it lists them scaled by the slider's position.
PreviewPanel(base, intensity) ==
  IF base = Null THEN Null
  ELSE [i \in DOMAIN Fields |->
          <<Fields[i], PanelField(Fields[i], Get(base, Fields[i]), intensity)>>]

\* naturalEditMutation.onSuccess (Editor lines 241-247) and the slider's
\* bookkeeping (line 178): a full run retains data.params as the base
\* parameters, a slider run retains the strength it was triggered at; the
\* page then renders again, the panel with it.  sp is the strengthPercent
\* sent, the slider's position (<<>> when none was sent).
OnSuccess(source, entry, params, sp) ==
  LET base == IF source # "slider" THEN params ELSE editor.baseNaturalParams
      intensity == IF sp = <<>> THEN editor.intensity ELSE sp[1]
  IN  [baseNaturalParams |-> base,
       lastTriggeredStrength |-> IF source = "slider" THEN entry.strength
                                 ELSE editor.lastTriggeredStrength,
       intensity |-> intensity,
       panel |-> PreviewPanel(base, intensity),
       log |-> editor.log \cup {entry}]

\* POST /api/natural-edit/:id from the request to the answer (lines 234-316)
\* when no other request interleaves: the fingerprint is taken from the final
\* parameters, strengthPercent ?? 100 completes the key, and the ledger is
\* probed; a hit answers with the stored image, a miss processes the image
\* and appends an entry.  sp is <<>> for a request without strengthPercent.
NaturalEdit(source, scaled, base, finalParams, sp) ==
  LET paramsKey == Stringify(finalParams)
      effectiveStrength == IF sp = <<>> THEN 100 ELSE sp[1]
      rows == GetCachedNaturalEdit(paramsKey, effectiveStrength)
      opt == [prompt |-> NatLabel, refinedPrompt |-> NoRefined,
              effectStrength |-> effectiveStrength]
      entry == LogEntry(source, scaled, base, finalParams, effectiveStrength,
                        rows # {})
  IN  /\ \A r \in Req : ~InFlight(r)
      /\ editExists
      /\ issued' = issued + 1
      /\ IF rows # {}
         THEN \E h \in rows :
                /\ edit' = UpdateEditResult(edit, h.imageId, "completed", opt)
                /\ UNCHANGED <<editHistory, images, imageInfo, nextImageId>>
         ELSE /\ images' = images \cup {nextImageId}
              /\ imageInfo' = Append(imageInfo,
                    [reqPrompt |-> EmptyPrompt, genPrompt |-> NoRefined,
                     source |-> OriginalImageId])
              /\ nextImageId' = nextImageId + 1
              /\ editHistory' = SaveNaturalEditHistory(
                    [params |-> paramsKey,
                     effectStrength |-> effectiveStrength,
                     imageId |-> nextImageId, sequence |-> GetNextSequence])
              /\ edit' = UpdateEditResult(edit, nextImageId, "completed", opt)
      /\ editor' = OnSuccess(source, entry, finalParams, sp)
      /\ UNCHANGED <<strengthCache, pc, req, snap, loc, gh, overlapped,
                     genCount, editExists, del, elsewhere>>

\* handleGenerateClick, case 1 (lines 418-456): the selected chips are merged
\* into one vector, scaled by the slider's strength and sent with it.
EditorButtonChips(merged, intensity) ==
  LET mergedParams == SharpObject(merged, Fields)
  IN  /\ issued < MaxAttempts
      /\ intensity \in 0..100
      /\ NaturalEdit("button", TRUE, merged,
                     ScaleParams(mergedParams, intensity), <<intensity>>)

\* handleGenerateClick, case 2 (lines 459-470): the prompt is sent with the
\* slider's strength; analyzePromptToSharpParams infers the vector
\* (openai.ts:826-839) and the route applies it as inferred.
EditorButtonPrompt(inferred, intensity) ==
  /\ issued < MaxAttempts
  /\ intensity \in 0..100
  /\ NaturalEdit("prompt", FALSE, inferred, SharpObject(inferred, Fields),
                 <<intensity>>)

\* The Auto Enhance button (lines 1024-1034): the suggestion's params are
\* sent as they are, without strengthPercent.
EditorAutoEnhance(suggested, listing) ==
  /\ issued < MaxAttempts
  /\ DOMAIN listing = DOMAIN Fields
  /\ NaturalEdit("auto", FALSE, suggested, SharpObject(suggested, listing),
                 <<>>)

\* The slider effect in Natural Edit mode (lines 157-205): once base
\* parameters are retained and the strength is 5 or more away from the last
\* triggered one, the base is scaled by the new strength and sent with it.
SliderEffect(finalStrength) ==
  LET last == editor.lastTriggeredStrength
      far == finalStrength - last >= 5 \/ last - finalStrength >= 5
  IN  /\ editor.baseNaturalParams # Null
      /\ last # -1 => far
      /\ NaturalEdit("slider", TRUE, ValuesOf(editor.baseNaturalParams),
                     ScaleParams(editor.baseNaturalParams, finalStrength),
                     <<finalStrength>>)

\* The slider moved on the Editor page of SpecEditor.
EditorSlider(finalStrength) ==
  /\ issued < MaxAttempts
  /\ SliderEffect(finalStrength)

\* A slider session: the vectors the first full edit is made of (0.3 is a
\* value the vision model may return: openai.ts:829-836 and routes.ts:602
\* keep what it sends), and the positions the slider is dragged to.
SliderVectors == {Vector(b, c, sh) : b \in {0, 3, 10}, c \in {0, -300},
                                     sh \in {0, 5}}
SliderStrengths == {0, 50, 52, 100}

\* The session's first edit by the Generate button, from chips (lines
\* 418-456).
SliderFirstChips(merged, intensity) ==
  /\ issued = 0
  /\ NaturalEdit("button", TRUE, merged,
                 ScaleParams(SharpObject(merged, Fields), intensity),
                 <<intensity>>)

\* The session's first edit by the Generate button, from a prompt (lines
\* 459-470).
SliderFirstPrompt(inferred, intensity) ==
  /\ issued = 0
  /\ NaturalEdit("prompt", FALSE, inferred, SharpObject(inferred, Fields),
                 <<intensity>>)

\* The slider dragged to a strength during the session (lines 670-678 and
\* the effect it sets off).
SliderDrag(finalStrength) ==
  /\ issued < 1 + MaxSliderRuns
  /\ SliderEffect(finalStrength)

\* An image as sharp sees it: whether it decodes, and its dimensions.
Image(w, h) == [readable |-> TRUE, w |-> w, h |-> h]

\* sharp(buf).metadata() answers for an image that decodes and has pixels.
Decodes(img) == img.readable /\ img.w >= 1 /\ img.h >= 1

\* The source images a generative attempt may load, one of them unreadable,
\* and the widths and heights an Edit row may hold.
Sources == {NoImage} \cup {Image(w, h) : w, h \in 0..MaxSide}
TargetSides == 0..MaxSide
\* Side lengths of the square the generator returns.
ReturnedSides == {1, 3, 1024}

\* sharp().extend: the image with the four paddings added.
Extend(img, top, bottom, left, right) ==
  IF top < 0 \/ bottom < 0 \/ left < 0 \/ right < 0 THEN NoImage
  ELSE Image(img.w + left + right, img.h + top + bottom)

\* sharp().resize(w, h): an image of exactly that size.
Resize(img, w, h) ==
  IF ~Decodes(img) \/ w < 1 \/ h < 1 THEN NoImage ELSE Image(w, h)

\* sharp().extract: the region, which has to lie inside the image.
Extract(img, left, top, width, height) ==
  IF \/ ~Decodes(img)
     \/ left < 0 \/ top < 0 \/ width < 1 \/ height < 1
     \/ left + width > img.w \/ top + height > img.h
  THEN NoImage
  ELSE Image(width, height)

\* A PadInfo that centres the image rounding upwards.
PadInfo_Ceiling(W, H) ==
  LET S == IF W > H THEN W ELSE H
  IN  [S |-> S, left |-> (S - W + 1) \div 2, top |-> (S - H + 1) \div 2,
       width |-> W, height |-> H]

\* The PadInfo of a W x H image in its square (openai.ts:403-406, 969-976).
PadInfo(W, H) ==
  LET S == IF W > H THEN W ELSE H
  IN  [S |-> S, left |-> (S - W) \div 2, top |-> (S - H) \div 2,
       width |-> W, height |-> H]

\* padToSquare (openai.ts:401-420) of an image that decodes.
PadToSquare(img) ==
  LET pad == PadInfo(img.w, img.h)
  IN  [square |-> Extend(img, pad.top, pad.S - img.h - pad.top,
                         pad.left, pad.S - img.w - pad.left),
       pad |-> pad]

\* unpadFromSquare (openai.ts:423-438): the returned square is resized to
\* pad.S x pad.S and the padding cropped away.
UnpadFromSquare(returned, pad) ==
  LET scaled == Resize(returned, pad.S, pad.S)
  IN  Extract(scaled, pad.left, pad.top, pad.width, pad.height)

\* The unpad descriptor taken from padToSquare's result.
TargetPad_OfSource(c) == c.pad

\* targetPad (openai.ts:969-976): the descriptor of the target dimensions.
TargetPad(c) == PadInfo(c.targetWidth, c.targetHeight)

\* What a call of generateImageWithStrength leaves alone.
CanvasUnchanged ==
  UNCHANGED <<edit, strengthCache, editHistory, images, imageInfo,
              nextImageId, pc, req, snap, loc, gh, issued, overlapped,
              genCount, editExists, del, editor, suggest, executor,
              account>>

\* generateImageWithStrength is called (routes.ts:506-522, openai.ts:934-942)
\* with the loaded source image and the Edit's width and height.
StrengthCall(src, targetWidth, targetHeight) ==
  /\ canvas.pc = "idle"
  /\ canvas' = [canvas EXCEPT !.pc = "refine", !.source = src,
                               !.targetWidth = targetWidth,
                               !.targetHeight = targetHeight]
  /\ CanvasUnchanged

\* Step 1 (openai.ts:944-953): PromptEngineer.refine asks the chat model
\* (optimizeForVision hands an image it cannot decode on as it is,
\* openai.ts:374-377); when the call fails the user prompt is kept.
StrengthRefine(ok) ==
  /\ canvas.pc = "refine"
  /\ ok \in BOOLEAN
  /\ canvas' = [canvas EXCEPT !.pc = "pad", !.refined = ok,
                               !.calls = Append(@, "refine")]
  /\ CanvasUnchanged

\* Step 2 (openai.ts:955-958): padToSquare decodes the source and pads it;
\* an image that does not decode ends the call with sharp's error.
StrengthPad ==
  /\ canvas.pc = "pad"
  /\ IF Decodes(canvas.source)
     THEN LET padded == PadToSquare(canvas.source)
          IN  canvas' = [canvas EXCEPT !.pc = "execute",
                                       !.square = padded.square,
                                       !.pad = padded.pad]
     ELSE canvas' = [canvas EXCEPT !.pc = "done", !.error = "decode"]
  /\ CanvasUnchanged

\* Step 3 (openai.ts:961): Executor.execute sends the square to the
\* generator, which answers with a square of some side.
StrengthExecute(side) ==
  /\ canvas.pc = "execute"
  /\ canvas' = [canvas EXCEPT !.pc = "unpad",
                               !.calls = Append(@, "generate"),
                               !.returned = Image(side, side)]
  /\ CanvasUnchanged

\* Step 3 when the generator or the download of its result fails.
StrengthExecuteFail ==
  /\ canvas.pc = "execute"
  /\ canvas' = [canvas EXCEPT !.pc = "done",
                               !.calls = Append(@, "generate"),
                               !.error = "generate"]
  /\ CanvasUnchanged

\* Step 4 (openai.ts:963-978): the returned square is unpadded with the
\* descriptor of the target dimensions; a crop sharp refuses ends the call
\* with its error.
StrengthUnpad ==
  LET targetPad == TargetPad(canvas)
      finalBuf == UnpadFromSquare(canvas.returned, targetPad)
  IN  /\ canvas.pc = "unpad"
      /\ canvas' = [canvas EXCEPT !.pc = "done", !.targetPad = targetPad,
                                   !.out = finalBuf,
                                   !.error = IF Decodes(finalBuf) THEN "none"
                                             ELSE "unpad"]
      /\ CanvasUnchanged

\* The static suggestions of VisionAnalyst (openai.ts:530-544), which are
\* also the upload's defaults (routes.ts:53-63), and what the vision model
\* may answer for an image.
StaticAnalysis == [title |-> "Uploaded Image", natural |-> "static natural",
                   ai |-> "static ai"]
Analyses == {[title |-> "t1", natural |-> "n1", ai |-> "a1"],
             [title |-> "t2", natural |-> "n2", ai |-> "a2"]}
\* The answers of the vision model: an analysis, or an error (a failed
\* call, a refusal, an answer that is not JSON).
Failure == [ok |-> FALSE, analysis |-> NoAnalysis]
Outcomes == {[ok |-> TRUE, analysis |-> a] : a \in Analyses} \cup {Failure}
\* The id of an image that is not in the blob store.
MissingImageId == -2
\* The images an edit may stand on: the original, the upload's, a lost one.
SuggestImages == {OriginalImageId, 1, MissingImageId}

\* VisionAnalyst.analyze (openai.ts:460-545): the model's analysis, or the
\* static one when the call fails.
VisionAnalyze(outcome) ==
  IF outcome.ok THEN outcome.analysis ELSE StaticAnalysis

\* The fallback answer of GET /api/suggestions/:id (routes.ts:616-631): the
\* generic remix ideas, no natural suggestions.
RouteFallback == [status |-> 200, natural |-> "[]", ai |-> "static ai"]

\* DatabaseStorage.getCachedSuggestions (auth.ts:387-404).
GetCachedSuggestions(imageId) ==
  {c \in suggest.cache : c.imageId = imageId}

\* An insert that ignores the rows already there.
SaveCachedSuggestions_Insert(imageId, suggestions) ==
  suggest.cache \cup {[imageId |-> imageId,
                       natural |-> suggestions.natural,
                       ai |-> suggestions.ai, id |-> Len(suggest.saves)]}

\* DatabaseStorage.saveCachedSuggestions (auth.ts:406-425): an insert that
\* on a conflict on image_id (UNIQUE, migration 0006) updates the row.
SaveCachedSuggestions(imageId, suggestions) ==
  IF \E c \in suggest.cache : c.imageId = imageId
  THEN {IF c.imageId = imageId
        THEN [c EXCEPT !.natural = suggestions.natural,
                       !.ai = suggestions.ai]
        ELSE c : c \in suggest.cache}
  ELSE suggest.cache \cup {[imageId |-> imageId,
                            natural |-> suggestions.natural,
                            ai |-> suggestions.ai,
                            id |-> Len(suggest.saves)]}

\* storage.createEdit as POST /api/upload calls it (routes.ts:74-87).
CreateEdit_Processing(imageId, analysis) ==
  [status |-> "processing", originalImageId |-> imageId,
   currentImageId |-> imageId, title |-> analysis.title,
   natural |-> analysis.natural, ai |-> analysis.ai]

CreateEdit(imageId, analysis) ==
  [status |-> "pending", originalImageId |-> imageId,
   currentImageId |-> imageId, title |-> analysis.title,
   natural |-> analysis.natural, ai |-> analysis.ai]

\* What the suggestion requests leave alone.
SuggestUnchanged ==
  UNCHANGED <<edit, strengthCache, editHistory, pc, req, snap, loc, gh,
              issued, overlapped, genCount, editExists, del, editor, canvas,
              executor, account>>

\* GET /api/suggestions/:id arrives for an edit whose currentImageId is
\* imageId (routes.ts:560-570).
SugRequest(q, imageId) ==
  /\ suggest.q[q].pc \in {"idle", "done"}
  /\ suggest.issued < MaxAttempts
  /\ imageId \in images \cup {MissingImageId}
  /\ suggest' = [suggest EXCEPT
                   !.issued = @ + 1,
                   !.q[q] = [NoSuggestRequest EXCEPT !.pc = "probe",
                                                     !.imageId = imageId]]
  /\ UNCHANGED <<images, imageInfo, nextImageId>>
  /\ SuggestUnchanged

\* Lines 572-582: the cache is probed; a hit is the answer.
SugProbe(q) ==
  LET rows == GetCachedSuggestions(suggest.q[q].imageId)
  IN  /\ suggest.q[q].pc = "probe"
      /\ IF rows # {}
         THEN \E c \in rows :
                suggest' = [suggest EXCEPT
                  !.q[q].pc = "done",
                  !.q[q].response = [status |-> 200, natural |-> c.natural,
                                     ai |-> c.ai]]
         ELSE suggest' = [suggest EXCEPT !.q[q].pc = "analyze"]
      /\ UNCHANGED <<images, imageInfo, nextImageId>>
      /\ SuggestUnchanged

\* Lines 587-590 and 614-631: the image is not in the blob store, and the
\* catch answers with the fallback.
SugLoadFail(q) ==
  /\ suggest.q[q].pc = "analyze"
  /\ suggest.q[q].imageId \notin images
  /\ suggest' = [suggest EXCEPT !.q[q].pc = "done", !.q[q].failed = TRUE,
                                 !.q[q].response = RouteFallback]
  /\ UNCHANGED <<images, imageInfo, nextImageId>>
  /\ SuggestUnchanged

\* Line 593: the image is analysed.
SugAnalyze(q, outcome) ==
  /\ suggest.q[q].pc = "analyze"
  /\ suggest.q[q].imageId \in images
  /\ suggest' = [suggest EXCEPT !.q[q].pc = "save",
                                 !.q[q].failed = ~outcome.ok,
                                 !.q[q].analysis = VisionAnalyze(outcome)]
  /\ UNCHANGED <<images, imageInfo, nextImageId>>
  /\ SuggestUnchanged

\* Lines 595-613: the analysis is saved to the cache and sent.
SugSave(q) ==
  LET me == suggest.q[q]
  IN  /\ me.pc = "save"
      /\ suggest' = [suggest EXCEPT
            !.cache = SaveCachedSuggestions(me.imageId, me.analysis),
            !.saves = Append(@, [imageId |-> me.imageId,
                                 natural |-> me.analysis.natural,
                                 ai |-> me.analysis.ai]),
            !.q[q].pc = "done",
            !.q[q].response = [status |-> 200,
                               natural |-> me.analysis.natural,
                               ai |-> me.analysis.ai]]
      /\ UNCHANGED <<images, imageInfo, nextImageId>>
      /\ SuggestUnchanged

\* POST /api/upload with image data that ImageStorage.saveImage stores
\* (routes.ts:41-50).
UploadRequest ==
  /\ suggest.upload.pc = "idle"
  /\ images' = images \cup {nextImageId}
  /\ imageInfo' = Append(imageInfo,
        [reqPrompt |-> EmptyPrompt, genPrompt |-> NoRefined,
         source |-> nextImageId])
  /\ nextImageId' = nextImageId + 1
  /\ suggest' = [suggest EXCEPT !.upload.pc = "analyze",
                                 !.upload.imageId = nextImageId]
  /\ SuggestUnchanged

\* POST /api/upload without image data, or with data saveImage refuses
\* (routes.ts:45-47, 93-96).
UploadReject ==
  /\ suggest.upload.pc = "idle"
  /\ suggest' = [suggest EXCEPT !.upload.pc = "done", !.upload.status = 400]
  /\ UNCHANGED <<images, imageInfo, nextImageId>>
  /\ SuggestUnchanged

\* Lines 52-69: the upload is analysed; the defaults stay when it fails.
UploadAnalyze(outcome) ==
  /\ suggest.upload.pc = "analyze"
  /\ suggest' = [suggest EXCEPT !.upload.pc = "create",
                                 !.upload.failed = ~outcome.ok,
                                 !.upload.analysis = VisionAnalyze(outcome)]
  /\ UNCHANGED <<images, imageInfo, nextImageId>>
  /\ SuggestUnchanged

\* Lines 71-92: the Edit row is created and sent.
UploadCreate ==
  /\ suggest.upload.pc = "create"
  /\ suggest' = [suggest EXCEPT
        !.upload.pc = "done", !.upload.status = 200,
        !.upload.edit = CreateEdit(suggest.upload.imageId,
                                   suggest.upload.analysis)]
  /\ UNCHANGED <<images, imageInfo, nextImageId>>
  /\ SuggestUnchanged

\* What the Executor leaves alone.
ExecutorUnchanged ==
  UNCHANGED <<edit, strengthCache, editHistory, images, imageInfo,
              nextImageId, pc, req, snap, loc, gh, issued, overlapped,
              genCount, editExists, del, editor, canvas, suggest, account>>

\* A millisecond passes.
ClockTick ==
  /\ executor.now < MaxClock
  /\ executor' = [executor EXCEPT !.now = @ + 1]
  /\ ExecutorUnchanged

\* Executor.execute for edit e, lines 606-623: once optimizeForDALLE has
\* returned, the padded image of the edit is written to
\* edit-<Date.now()>.png in the temp directory, over any file of that name.
ExecWrite(e) ==
  LET tempFilePath == executor.now
  IN  /\ executor.of[e].pc = "idle"
      /\ executor' = [executor EXCEPT
            !.tmp[tempFilePath] = e,
            !.of[e].pc = "written",
            !.of[e].path = tempFilePath,
            !.of[e].overwrote = executor.tmp[tempFilePath]]
      /\ ExecutorUnchanged

\* Lines 627-629: the read stream on the file is consumed by toFile, which
\* makes the upload of what the file holds by then.
ExecRead(e) ==
  LET me == executor.of[e]
  IN  /\ me.pc = "written"
      /\ IF executor.tmp[me.path] = Nothing
         THEN executor' = [executor EXCEPT !.of[e].pc = "done",
                                           !.of[e].result = "error"]
         ELSE executor' = [executor EXCEPT
                !.of[e].pc = "read",
                !.of[e].sent = executor.tmp[me.path]]
      /\ ExecutorUnchanged

\* Lines 631-668: the generator answers or fails, and the finally block
\* unlinks the file at the path if one exists.
ExecFinish(e, ok) ==
  LET me == executor.of[e]
  IN  /\ me.pc = "read"
      /\ executor' = [executor EXCEPT
            !.tmp[me.path] = Nothing,
            !.of[e].pc = "done",
            !.of[e].unlinked = executor.tmp[me.path],
            !.of[e].result = IF ok THEN "image" ELSE "error"]
      /\ ExecutorUnchanged

----
----
\* Ownership of an edit: POST /api/edits/:id/claim, and the endpoints beside
\* it as a request with or without a session meets them.

AccountUnchanged ==
  UNCHANGED <<edit, strengthCache, editHistory, images, imageInfo,
              nextImageId, pc, req, snap, loc, gh, issued, overlapped,
              genCount, editExists, del, editor, canvas, suggest, executor>>

\* What is kept of a request that came without a session (history).
Open(session, endpoint, status, changed) ==
  IF session = Anonymous
  THEN account.open \cup {[endpoint |-> endpoint, status |-> status,
                           changed |-> changed]}
  ELSE account.open

\* registerRoutes: the endpoints that begin with req.isAuthenticated()
\* (routes.ts:101 is the only such line).
RequiresSession(endpoint) == endpoint = "claim"

\* Line 117 negated: the edit as read has no owner, or is the user's own.
ClaimAllowed(userId, user) == ~(userId # NoUser /\ userId # user)

\* DatabaseStorage.updateEdit(id, { userId }): one UPDATE of the row.
UpdateEdit(userId) ==
  [account EXCEPT !.userId = userId,
                  !.owners = IF userId = account.userId THEN @
                             ELSE Append(@, userId)]

\* Lines 100-112: the claim of user u arrives; without a session it is
\* answered 401, with one the Edit row is asked for.
ClaimRequest(u, session) ==
  /\ account.issued < MaxVisits
  /\ account.claim[u].pc \in {"idle", "done"}
  /\ session \in {u, Anonymous}
  /\ IF RequiresSession("claim") /\ session = Anonymous
     THEN account' = [account EXCEPT
            !.issued = @ + 1,
            !.last = [endpoint |-> "claim", session |-> session,
                      status |-> 401],
            !.open = Open(session, "claim", 401, FALSE)]
     ELSE account' = [account EXCEPT
            !.issued = @ + 1,
            !.claim[u] = [NoClaim EXCEPT !.pc = "getEdit"]]
  /\ AccountUnchanged

\* Line 111: storage.getEdit answers with the row as it is now.
ClaimGetEdit(u) ==
  /\ account.claim[u].pc = "getEdit"
  /\ account' = [account EXCEPT !.claim[u].pc = "check",
                                !.claim[u].userId = account.userId]
  /\ AccountUnchanged

\* Lines 117-119: the row read belongs to someone else: 403.
ClaimRefuse(u) ==
  /\ account.claim[u].pc = "check"
  /\ ~ClaimAllowed(account.claim[u].userId, u)
  /\ account' = [account EXCEPT
       !.claim[u].pc = "done", !.claim[u].status = 403,
       !.last = [endpoint |-> "claim", session |-> u, status |-> 403]]
  /\ AccountUnchanged

\* Lines 121-124: otherwise the user's id is written to the row and the
\* claim is answered success.
ClaimUpdate(u) ==
  /\ account.claim[u].pc = "check"
  /\ ClaimAllowed(account.claim[u].userId, u)
  /\ account' = [UpdateEdit(u) EXCEPT
       !.claim[u].pc = "done", !.claim[u].status = 200,
       !.granted = @ \cup {u},
       !.last = [endpoint |-> "claim", session |-> u, status |-> 200]]
  /\ AccountUnchanged

\* PATCH /api/edits/:id (lines 359-377): an empty title is answered 400,
\* any other is written by updateEditTitle.
Rename(session, title) ==
  /\ account.issued < MaxVisits
  /\ LET status == IF title = "" THEN 400 ELSE 200
         answered == [account EXCEPT
            !.issued = @ + 1,
            !.last = [endpoint |-> "rename", session |-> session,
                      status |-> status],
            !.open = Open(session, "rename", status,
                          status = 200 /\ title # account.title)]
     IN account' = IF status = 200
                   THEN [answered EXCEPT !.title = title]
                   ELSE answered
  /\ AccountUnchanged

\* GET /api/data/:id.:ext (lines 27-38) and serveImage: the stored image is
\* sent, or 404 when there is none.
ServeData(session, id) ==
  /\ account.issued < MaxVisits
  /\ LET status == IF id \in images THEN 200 ELSE 404
     IN account' = [account EXCEPT
          !.issued = @ + 1,
          !.last = [endpoint |-> "data", session |-> session,
                    status |-> status],
          !.open = Open(session, "data", status, FALSE)]
  /\ AccountUnchanged

Next ==
  \E r \in Req :
    \/ \E p \in Prompts, s \in Strengths, cc \in BOOLEAN, rfc \in BOOLEAN :
         GenRequest(r, p, s, cc, rfc)
    \/ GenPurge(r)
    \/ GenSetProcessing(r)
    \/ GenProbe(r)
    \/ GenHit(r)
    \/ GenGenerateOk(r)
    \/ GenGenerateFail(r)
    \/ GenSaveCache(r)
    \/ GenComplete(r)
    \/ GenFail(r)
    \/ \E k \in ParamKeys \cup {Undefined}, s \in Strengths, rfc \in BOOLEAN,
          l \in Labels :
         NatRequest(r, k, s, rfc, l)
    \/ NatLoad(r)
    \/ NatProbe(r)
    \/ NatHit(r)
    \/ NatApplyOk(r)
    \/ NatApplyFail(r)
    \/ NatNextSequence(r)
    \/ NatSaveHistory(r)
    \/ NatComplete(r)

Spec == Init /\ [][Next]_vars

\* The steps of a request that the server itself takes: store reads and
\* writes and local image processing, each of which returns.  The answer of
\* the external generator (GenGenerateOk, GenGenerateFail) is not among them:
\* Executor.execute awaits openai.images.edit and fetch without a timeout.
HandlerStep(r) ==
  \/ GenPurge(r) \/ GenSetProcessing(r) \/ GenProbe(r) \/ GenHit(r)
  \/ GenSaveCache(r) \/ GenComplete(r) \/ GenFail(r)
  \/ NatLoad(r) \/ NatProbe(r) \/ NatHit(r) \/ NatApplyOk(r)
  \/ NatApplyFail(r) \/ NatNextSequence(r) \/ NatSaveHistory(r)
  \/ NatComplete(r)

\* The event loop runs every continuation whose await has resolved.
SpecLive == Spec /\ \A r \in Req : WF_vars(HandlerStep(r))

\* The edit requests together with rejected requests and DELETE.
NextDelete ==
  \/ Next
  \/ \E r \in Req :
       \/ \E p \in Prompts \cup {EmptyPrompt} : GenReject(r, p)
       \/ \E valid \in BOOLEAN : NatReject(r, valid)
  \/ DelRequest
  \/ DelReadCache
  \/ DelImages
  \/ DelPurgeCache
  \/ DelPurgeHistory
  \/ DelEdit
  \/ DelError

SpecDelete == Init /\ [][NextDelete]_vars

\* One Editor page working on the edit, its requests answered one by one.
NextEditor ==
  \/ \E v \in Vectors, s \in EditorStrengths : EditorButtonChips(v, s)
  \/ \E v \in Vectors, s \in EditorStrengths : EditorButtonPrompt(v, s)
  \/ \E v \in Vectors, l \in Listings : EditorAutoEnhance(v, l)
  \/ \E s \in EditorStrengths : EditorSlider(s)

SpecEditor == Init /\ [][NextEditor]_vars

\* One Editor page in a slider session: a first full edit, then the slider
\* dragged from strength to strength.
NextSlider ==
  \/ \E v \in SliderVectors, s \in SliderStrengths : SliderFirstChips(v, s)
  \/ \E v \in SliderVectors, s \in SliderStrengths : SliderFirstPrompt(v, s)
  \/ \E s \in SliderStrengths : SliderDrag(s)

SpecSlider == Init /\ [][NextSlider]_vars

\* One call of generateImageWithStrength.
NextCanvas ==
  \/ \E src \in Sources, tw \in TargetSides, th \in TargetSides :
       StrengthCall(src, tw, th)
  \/ \E ok \in BOOLEAN : StrengthRefine(ok)
  \/ StrengthPad
  \/ \E side \in ReturnedSides : StrengthExecute(side)
  \/ StrengthExecuteFail
  \/ StrengthUnpad

SpecCanvas == Init /\ [][NextCanvas]_vars

\* An upload and the suggestion requests, interleaved at their awaits.
NextSuggest ==
  \/ \E q \in Req :
       \/ \E i \in SuggestImages : SugRequest(q, i)
       \/ SugProbe(q)
       \/ SugLoadFail(q)
       \/ \E o \in Outcomes : SugAnalyze(q, o)
       \/ SugSave(q)
  \/ UploadRequest
  \/ UploadReject
  \/ \E o \in Outcomes : UploadAnalyze(o)
  \/ UploadCreate

SpecSuggest == Init /\ [][NextSuggest]_vars

\* Generative attempts on two edits inside Executor.execute.
NextExecutor ==
  \/ ClockTick
  \/ \E e \in EditIds :
       \/ ExecWrite(e)
       \/ ExecRead(e)
       \/ \E ok \in BOOLEAN : ExecFinish(e, ok)

SpecExecutor == Init /\ [][NextExecutor]_vars

\* Claims, renames and image downloads on the guest's edit, interleaved at
\* the awaits of the claim handler.
NextClaim ==
  \/ \E u \in Users, session \in Users \cup {Anonymous} :
       ClaimRequest(u, session)
  \/ \E u \in Users :
       \/ ClaimGetEdit(u)
       \/ ClaimRefuse(u)
       \/ ClaimUpdate(u)
  \/ \E session \in Users \cup {Anonymous}, title \in Titles :
       Rename(session, title)
  \/ \E session \in Users \cup {Anonymous},
        id \in {OriginalImageId, MissingImageId} : ServeData(session, id)

SpecClaim == Init /\ [][NextClaim]_vars

----
\* Stages of a request at which its cache probing, external call or image
\* processing is under way or behind it.
GenWorking == {"gProbe", "gHit", "gGenerate", "gCache", "gComplete", "gFail"}
NatWorking == {"nProbe", "nHit", "nApply", "nSequence", "nInsert", "nComplete"}

\* An attempt has begun its work and has not yet written its result.
Underway(r) == pc[r] \in GenWorking \cup NatWorking

\* C1: the entries of the ledger carry pairwise different sequence numbers,
\* and the numbers in use are exactly 1..N for N entries, in every
\* interleaving of the parameter edits' getNextSequence read and insert.
C1_SequencesUnique ==
  /\ \A h1, h2 \in editHistory : h1.sequence = h2.sequence => h1 = h2
  /\ {h.sequence : h \in editHistory} = 1..Cardinality(editHistory)

\* C2: while Edit.prompt is unchanged at most one image is generated per
\* strength, and at most one image is processed per (fingerprint, strength),
\* in every interleaving of requests on the edit.
C2_AtMostOneComputation ==
  /\ \A s \in Strengths : genCount[s] <= 1
  /\ \A h1, h2 \in editHistory :
       (h1.params = h2.params /\ h1.effectStrength = h2.effectStrength)
         => h1 = h2

\* C3: the failure write of a generative attempt leaves Edit.currentImageId
\* as it was stored immediately before that write.
C3_FailedKeepsCurrentImage ==
  [][\A r \in Req :
       (pc[r] = "gFail" /\ pc'[r] = "done")
         => edit'.currentImageId = edit.currentImageId]_vars

\* C4: the write that sets status = processing leaves Edit.currentImageId as
\* it was stored immediately before that write.
C4_ProcessingKeepsCurrentImage ==
  [][\A r \in Req :
       (pc[r] = "gProcessing" /\ pc'[r] = "gProbe")
         => edit'.currentImageId = edit.currentImageId]_vars

\* C5: a generative request whose prompt differs from the stored Edit.prompt
\* is never served from a strength-cache entry created under another prompt.
C5_PromptChangeInvalidates ==
  \A r \in Req :
    (pc[r] = "gHit" /\ req[r].prompt # snap[r].prompt)
      => imageInfo[loc[r].cached].reqPrompt = req[r].prompt

\* C6: the strength cache holds at most one entry per strength of the edit.
C6_StrengthCacheUnique ==
  \A c1, c2 \in strengthCache : c1.strength = c2.strength => c1 = c2

\* A generative request that repeats the request the edit last completed,
\* in a run where no two requests on the edit have overlapped.
Repeated(r) == ~overlapped /\ gh[r].again # -1

\* What C7 promises of a repeated request: it never clears the cache nor
\* generates, and it ends completed on the image of the first request, which
\* stays the only cache entry of that strength.
ServedAgain(r) ==
  /\ pc[r] \in {"gProcessing", "gProbe", "gHit", "done"}
  /\ ~gh[r].generated
  /\ pc[r] = "done" =>
       /\ gh[r].status = "completed"
       /\ gh[r].result = gh[r].again
       /\ edit.status = "completed"
       /\ edit.currentImageId = gh[r].again
       /\ GetCachedImageForStrength(edit.effectStrength)
            = {[strength |-> edit.effectStrength, imageId |-> gh[r].again]}

\* C7 as stated: every repetition of a completed generative request (same
\* prompt, same strength, no prompt change in between) causes no generate
\* call, adds no cache entry and ends completed on the same image.
C7_RepeatedRequestHits_AsStated ==
  \A r \in Req : Repeated(r) => ServedAgain(r)

\* C7 as amended: the same, for a repetition that does not set clearCache.
C7_RepeatedRequestHits ==
  \A r \in Req : (Repeated(r) /\ ~gh[r].cc) => ServedAgain(r)

\* C7 witness: a repetition without clearCache has been served from the cache.
C7_Witness ==
  \E r \in Req :
    Repeated(r) /\ ~gh[r].cc /\ pc[r] = "done" /\ gh[r].hit

\* C8: while an attempt on the edit is under way, the stored status is
\* processing.
C8_ProcessingWhileUnderway ==
  (\E r \in Req : Underway(r)) => edit.status = "processing"

\* C9: a request probes a cache, calls an external service or processes an
\* image only after it has written status = processing.
C9_ProcessingBeforeWork ==
  \A r \in Req : Underway(r) => gh[r].wroteProcessing

\* C10: an attempt writes completed or failed only after it has written
\* processing, it writes at most one terminal status and, once its work is
\* done, exactly one; no write takes status back to pending.
C10_StatusTransitions ==
  /\ \A r \in Req :
       /\ gh[r].terminal >= 1 => gh[r].wroteProcessing
       /\ gh[r].terminal <= 1
       /\ gh[r].status \in {"completed", "failed", "error"}
            => gh[r].terminal = 1
  /\ (\E r \in Req : gh[r].wroteProcessing \/ gh[r].terminal >= 1)
       => edit.status # "pending"

\* C11: every attempt that has written status = processing eventually writes
\* completed or failed, even when the external generator never answers.
C11_NoStuckProcessing ==
  \A r \in Req : gh[r].wroteProcessing ~> (gh[r].terminal >= 1)

\* C12: when the external service or the image processing of an attempt
\* raises an error, generative or parameter-driven, that attempt leaves the
\* edit's status at failed.
C12_ErrorSetsFailed ==
  [][\A r \in Req :
       (pc[r] \in {"gFail", "nApply"} /\ pc'[r] = "done"
          /\ gh'[r].status \in {"failed", "error"})
         => edit'.status = "failed"]_vars

\* C13: a request that is rejected because the edit or its source image does
\* not exist, or because its input is invalid, is rejected before it has
\* written status = processing, and its rejection leaves the Edit row as it
\* was.
C13_RejectedBeforeProcessing ==
  [][\A r \in Req :
       \/ /\ pc[r] = "gGenerate"
          /\ loc[r].source \notin images
          /\ pc'[r] = "gFail"
       \/ /\ gh'[r].status = "rejected"
          /\ pc'[r] = "done"
          /\ pc[r] # "done" \/ issued' # issued
       => ~gh'[r].wroteProcessing /\ edit' = edit]_vars

\* The edit stands completed on the image X that a parameter edit with
\* fingerprint params at this strength produced: the value is X, or -1.
NatRepeats(params, strength) ==
  IF /\ edit.status = "completed"
     /\ edit.effectStrength = strength
     /\ \E h \in editHistory : /\ h.params = params
                               /\ h.effectStrength = strength
                               /\ h.imageId = edit.currentImageId
  THEN edit.currentImageId ELSE -1

\* A parameter request that re-issues the completed parameter edit the edit
\* stands on, in a run where no two requests have overlapped.
NatRepeated(r) ==
  /\ ~overlapped
  /\ pc[r] \in {"nProbe", "nHit"}
  /\ NatRepeats(loc[r].key, req[r].strength) # -1

\* C14: re-issuing a completed parameter edit (same vector, same strength)
\* on an edit that stands on its result X is a cache hit: the probe leads to
\* the hit branch with X, never to image processing, and the hit completes the
\* edit on X without adding a ledger entry or reading a sequence number.
C14_ParamEditCacheHit ==
  [][\A r \in Req :
       (NatRepeated(r) /\ pc'[r] # pc[r])
         => \/ /\ pc[r] = "nProbe"
               /\ pc'[r] = "nHit"
               /\ loc'[r].cached = edit.currentImageId
               /\ editHistory' = editHistory /\ images' = images
            \/ /\ pc[r] = "nHit"
               /\ pc'[r] = "done"
               /\ edit'.status = "completed"
               /\ edit'.currentImageId = edit.currentImageId
               /\ editHistory' = editHistory /\ images' = images]_vars

\* C14 witness: a re-issued parameter edit has been answered from the ledger
\* with the image the edit stands on.
C14_Witness ==
  \E r \in Req :
    /\ NatRepeated(r)
    /\ pc[r] = "nHit"
    /\ loc[r].cached = edit.currentImageId

\* C15: once DELETE has removed the edit, no strength-cache entry and no
\* ledger entry of that edit exists, whatever attempts were in flight while
\* the delete ran.
C15_DeletePurgesCaches ==
  ~editExists => (strengthCache = {} /\ editHistory = {})

\* C16: while the Edit row exists, its currentImageId names an image that is
\* in the blob store.
C16_CurrentImagePresent ==
  editExists => edit.currentImageId \in images

\* C17: two requests whose final parameters have the same six numeric field
\* values get the same fingerprint, whether the vector was sent as params or
\* inferred from a prompt, and in whatever order its fields were listed.
C17_FingerprintEquality ==
  \A a, b \in editor.log : a.values = b.values => a.key = b.key

\* A full natural edit (button, prompt or Auto Enhance) and a later slider
\* run that scales the base parameters retained from it.
RescalingOf(a, b) ==
  /\ a.source # "slider"
  /\ b.source = "slider"
  /\ a.seq < b.seq
  /\ \A c \in editor.log : (a.seq < c.seq /\ c.seq < b.seq) => c.source = "slider"

\* C18: a slider re-scaling to the strength s of the full natural edit whose
\* base parameters the Editor retained sends the cache key that edit stored,
\* and is answered from the ledger.
C18_SliderHitsButtonEntry ==
  \A a, b \in editor.log :
    (RescalingOf(a, b) /\ b.strength = a.strength)
      => (b.key = a.key /\ b.cached)

\* Two scalings of the same base vector at different strengths.
TwoScalings(a, b) ==
  /\ a.scaled /\ b.scaled
  /\ a.base = b.base
  /\ a.strength # b.strength

FarApart(v, s1, s2) ==
  LET d == IF s1 > s2 THEN s1 - s2 ELSE s2 - s1
      Abs(x) == IF x < 0 THEN -x ELSE x
  IN  \E f \in FieldSet :
        Abs(v[f]) * d >= (IF f = "sharpen" THEN 50 ELSE 500)

InRanges(v) ==
  /\ \A f \in FieldSet \ {"sharpen"} : v[f] % 10 = 0
  /\ \A f \in {"brightness", "contrast", "saturation"} :
       v[f] >= -500 /\ v[f] <= 500
  /\ v["hue"] >= -1800 /\ v["hue"] <= 1800
  /\ v["sharpen"] >= 0 /\ v["sharpen"] <= 100
  /\ v["noise"] >= 0 /\ v["noise"] <= 1000

\* C20: scaling a vector within the AdjustmentVector ranges at strength 50
\* returns it unchanged.
C20_ScalerIdentity ==
  \A a \in editor.log :
    (a.scaled /\ a.strength = 50 /\ InRanges(a.base)) => a.values = a.base

\* C20 witness: a vector with a non-zero integer field and a one-decimal
\* sharpen has been scaled at strength 50.
C20_Witness ==
  \E a \in editor.log :
    /\ a.scaled /\ a.strength = 50 /\ InRanges(a.base)
    /\ a.base["contrast"] # 0
    /\ a.base["sharpen"] % 10 # 0

\* The requests of the Editor that scaled a base vector by a strength.
Scalings == {a \in editor.log : a.scaled}

\* y is x * strength / 50 rounded: an integer no more than one half away
\* from the product, for sharpen a multiple of 0.1 no more than 0.05 away.
NearestTo(f, y, x, strength) ==
  LET Abs(n) == IF n < 0 THEN -n ELSE n
  IN  IF f = "sharpen" THEN Abs(50 * y - x * strength) <= 25
      ELSE y % 10 = 0 /\ Abs(50 * y - x * strength) <= 250

\* What C21 says of every strength: each scaled field is its own base field
\* times strength / 50, rounded; equal base fields scale equally whatever
\* the other fields are; strength 0 gives the zero vector; and the preview
\* panel lists the vector that the button or the slider sent for the base
\* vector and strength it shows.
ScalerFormula ==
  /\ \A a \in Scalings : \A f \in FieldSet :
       NearestTo(f, a.values[f], a.base[f], a.strength)
  /\ \A a, b \in Scalings : \A f \in FieldSet :
       (a.strength = b.strength /\ a.base[f] = b.base[f])
         => a.values[f] = b.values[f]
  /\ \A a \in Scalings : a.strength = 0 => a.values = ZeroVector
  /\ editor.panel # Null =>
       \A a \in Scalings :
         (/\ a.base = ValuesOf(editor.baseNaturalParams)
          /\ a.strength = editor.intensity)
           => ValuesOf(editor.panel) = a.values

\* Every scaled field is exactly twice its base field.
Doubled(a) == \A f \in FieldSet : a.values[f] = 2 * a.base[f]

\* A vector whose fields other than sharpen are integers.
WholeFields(v) == \A f \in FieldSet \ {"sharpen"} : v[f] % 10 = 0

SliderRuns == {a \in editor.log : a.source = "slider"}

\* The slider runs at strength s that were followed by a run at another
\* strength and scaled the base vector the Editor still retains.
Visits(s) ==
  {a \in SliderRuns :
     /\ a.strength = s
     /\ a.base = ValuesOf(editor.baseNaturalParams)
     /\ \E m \in SliderRuns : m.seq > a.seq /\ m.strength # s}

Padded == canvas.pc \in {"execute", "unpad"} \/
          (canvas.pc = "done" /\ canvas.error # "decode")

\* unpadFromSquare has been called with the descriptor padToSquare returned.
UnpaddedWithOwnPad ==
  /\ canvas.pc = "done"
  /\ canvas.error \in {"none", "unpad"}
  /\ canvas.targetPad = canvas.pad

\* C23: for a W x H image, W, H >= 1, padToSquare returns an S x S square
\* with S = max(W, H), left = floor((S - W) / 2), top = floor((S - H) / 2)
\* and no negative padding on any side; unpadFromSquare with that
\* descriptor, whatever the side of the returned square, crops inside the
\* square and yields exactly W x H.
C23_PadUnpadRoundTrip ==
  LET W == canvas.source.w
      H == canvas.source.h
      p == canvas.pad
  IN  /\ Padded =>
           /\ p.S >= W /\ p.S >= H /\ (p.S = W \/ p.S = H)
           /\ canvas.square = Image(p.S, p.S)
           /\ 2 * p.left <= p.S - W /\ p.S - W < 2 * p.left + 2
           /\ 2 * p.top <= p.S - H /\ p.S - H < 2 * p.top + 2
           /\ p.left >= 0 /\ p.top >= 0
           /\ p.S - W - p.left >= 0 /\ p.S - H - p.top >= 0
           /\ p.width = W /\ p.height = H
      /\ UnpaddedWithOwnPad =>
           /\ p.left + p.width <= p.S /\ p.top + p.height <= p.S
           /\ canvas.error = "none"
           /\ canvas.out = Image(W, H)

\* C23 witness: an image that is not square and is centred off by half a
\* pixel has been padded and unpadded from a returned square of another
\* side.
C23_Witness ==
  /\ UnpaddedWithOwnPad
  /\ canvas.source.w # canvas.source.h
  /\ (canvas.pad.S - canvas.source.w) % 2 = 1
  /\ canvas.returned.w # canvas.pad.S
  /\ canvas.out = Image(canvas.source.w, canvas.source.h)

\* C24: the image a successful call of generateImageWithStrength returns
\* has exactly the target width and height, the Edit's, whatever the
\* dimensions of the source image that was padded and sent.
C24_TargetDimensions ==
  (canvas.pc = "done" /\ canvas.error = "none")
    => canvas.out = Image(canvas.targetWidth, canvas.targetHeight)

\* C24 witness: a call has succeeded on a source image whose dimensions are
\* not the target's.
C24_Witness ==
  /\ canvas.pc = "done" /\ canvas.error = "none"
  /\ canvas.source.w # canvas.targetWidth
  /\ canvas.source.h # canvas.targetHeight
  /\ canvas.targetWidth # canvas.targetHeight
  /\ canvas.out = Image(canvas.targetWidth, canvas.targetHeight)

\* C25: a call that fails because the source image does not decode has
\* made no external call, neither the prompt refinement nor the generation.
C25_DecodeFailsFirst ==
  canvas.error = "decode" => canvas.calls = <<>>

\* Every field of a vector lies in its range: brightness, contrast and
\* saturation in [-50, 50], hue in [-180, 180], sharpen in [0, 10], noise in
\* [0, 100].
WithinRanges(v) ==
  /\ \A f \in {"brightness", "contrast", "saturation"} :
       v[f] >= -500 /\ v[f] <= 500
  /\ v["hue"] >= -1800 /\ v["hue"] <= 1800
  /\ v["sharpen"] >= 0 /\ v["sharpen"] <= 100
  /\ v["noise"] >= 0 /\ v["noise"] <= 1000

\* C26: a parameter-edit request with a field outside its range is rejected
\* and produces no image, no ledger entry and no change to the Edit: every
\* request the server has answered with a result, leaving a ledger entry
\* under its key and the edit completed, had all its fields within range.
C26_InputValidation ==
  \A a \in editor.log :
    (\E h \in editHistory : h.params = a.key /\ h.imageId \in images)
      => WithinRanges(a.values)

\* The saves made to the suggestions cache for an image, in order.
SavesFor(i) == SelectSeq(suggest.saves, LAMBDA x : x.imageId = i)

\* C27: the suggestions cache holds at most one entry per imageId, and the
\* entry of an image holds what was saved for it last, also when two
\* analyses of the image finish one after the other's probe.
C27_SuggestionsUpsert ==
  /\ \A c1, c2 \in suggest.cache : c1.imageId = c2.imageId => c1 = c2
  /\ \A i \in SuggestImages :
       LET saved == SavesFor(i)
       IN  IF saved = <<>> THEN GetCachedSuggestions(i) = {}
           ELSE \E c \in suggest.cache :
                  /\ c.imageId = i
                  /\ c.natural = saved[Len(saved)].natural
                  /\ c.ai = saved[Len(saved)].ai

\* C27 witness: two analyses of one image have been saved with different
\* content, and the image's entry holds the second.
C27_Witness ==
  \E i \in images :
    LET saved == SavesFor(i)
    IN  /\ Len(saved) = 2
        /\ saved[1] # saved[2]
        /\ \E c \in suggest.cache : c.imageId = i /\ c.ai = saved[2].ai

C29_EditsIndependent ==
  \A e \in EditIds :
    /\ executor.of[e].sent \in {Nothing, e}
    /\ executor.of[e].overwrote \in {Nothing, e}
    /\ executor.of[e].unlinked \in {Nothing, e}

\* Request r applies its completion or failure write in this step.
FinalWrite(r) == gh'[r].terminal = gh[r].terminal + 1

\* The status and image that the final write of request r carries: failed
\* with the currentImageId read at the start, or completed with the image
\* found in the cache or just stored.
Written(r) ==
  CASE pc[r] = "gFail" ->
         [status |-> "failed", image |-> snap[r].currentImageId]
    [] pc[r] \in {"gHit", "nHit"} ->
         [status |-> "completed", image |-> loc[r].cached]
    [] OTHER ->
         [status |-> "completed", image |-> loc[r].imageId]

\* C30: every completion or failure write of an attempt, applied while
\* another attempt on the edit is in flight or after it, leaves the Edit
\* with exactly the status and currentImageId it carries, and status and
\* currentImageId change in no step other than a write of some attempt: the
\* final values are those of the final write applied last.
C30_LastWriteWins ==
  [][/\ \A r \in Req :
          FinalWrite(r) => /\ edit'.status = Written(r).status
                           /\ edit'.currentImageId = Written(r).image
     /\ (edit'.status # edit.status
           \/ edit'.currentImageId # edit.currentImageId)
          => \E r \in Req : FinalWrite(r) \/ pc[r] = "gProcessing"]_vars

\* C30 witness: two attempts have overlapped, one completed on a new image
\* and the other failed; the failure write came last and the edit shows
\* failed on the image that write carried.
C30_Witness ==
  /\ overlapped
  /\ \A r \in Req : pc[r] = "done" /\ gh[r].terminal = 1
  /\ \E r1, r2 \in Req :
       /\ gh[r1].status = "completed" /\ gh[r2].status = "failed"
       /\ edit.status = "failed"
       /\ edit.currentImageId # gh[r1].result

\* The ledger entries appended no later than entry h: image ids are handed
\* out in increasing order, one per appended entry.
AppendedUpTo(h) == {g \in editHistory : g.imageId <= h.imageId}

\* C31: while parameter edits run one at a time, the k-th entry appended to
\* the ledger has sequence k: the sequences start at 1, rise by one with
\* every entry in insertion order, and none repeats or is missing.
C31_SequencesInOrder ==
  /\ \A h \in editHistory : h.sequence = Cardinality(AppendedUpTo(h))
  /\ {h.sequence : h \in editHistory} = 1..Cardinality(editHistory)

\* C31 witness: a slider session has appended one entry after another, and
\* the latest of at least three has been numbered from the largest sequence
\* before it.
C31_Witness ==
  /\ Cardinality(editHistory) >= 3
  /\ \E h \in editHistory :
       /\ h.imageId = edit.currentImageId
       /\ h.sequence = Cardinality(editHistory)
       /\ \E g \in editHistory : g.sequence = h.sequence - 1

\* C32: every request that comes without an authenticated session, to any
\* endpoint that reads or modifies edits or images, is rejected (401) and
\* changes no state.
C32_AllEndpointsRequireSession ==
  \A a \in account.open : a.status = 401 /\ ~a.changed

\* C33: DELETE goes on to remove the strength-cache rows, the ledger rows
\* and the Edit row only if every associated image was deleted: while the
\* handler is at one of those removals, none of the images it set out to
\* delete is left in the blob store (a failed deletion ends the request
\* with an error instead, the rows untouched).
C33_DeleteAllOrNothing ==
  del.pc \in {"dPurgeCache", "dPurgeHistory", "dEdit"}
    => del.imageIds \cap images = {}

\* C34: in every interleaving of generative requests on the edit, a request
\* served from the strength cache is served an image that was generated by
\* an attempt carrying the same prompt as the request; no attempt started
\* under an earlier prompt leaves an entry that a request with another
\* prompt hits.
C34_NoStaleHit ==
  \A r \in Req :
    pc[r] = "gHit" => imageInfo[loc[r].cached].reqPrompt = req[r].prompt

\* C35: every image the generator made on a cache miss was made from a
\* prompt derived from the prompt of the request that asked for it, never
\* from the refined prompt stored for an earlier prompt of the edit.
C35_GeneratesFromOwnPrompt ==
  \A i \in DOMAIN imageInfo :
    imageInfo[i].genPrompt # NoRefined
      => imageInfo[i].genPrompt = Refine(imageInfo[i].reqPrompt)

\* The image a request would take as its source on a miss (routes.ts:228 and
\* 490): the current image it read when refineFromCurrent is set, else the
\* original.
SourceOnMiss(r) ==
  IF req[r].refineFromCurrent THEN snap[r].currentImageId
  ELSE OriginalImageId

\* C36: a request answered from the ledger or from the strength cache gets
\* an image that was computed from the source image the request itself
\* would use on a miss: the original, or its current image when
\* refineFromCurrent is set.
C36_HitMatchesSource ==
  \A r \in Req :
    pc[r] \in {"nHit", "gHit"}
      => imageInfo[loc[r].cached].source = SourceOnMiss(r)

\* C37: the suggestions cache is written only with the result of a
\* successful analysis: a suggestions request whose vision call failed
\* answers with the static fallback and never comes to the save, so nothing
\* is stored for its image and a later request analyses again.
C37_FallbackNotCached ==
  \A q \in Req :
    /\ suggest.q[q].pc = "save" => ~suggest.q[q].failed
    /\ (suggest.q[q].pc = "done" /\ suggest.q[q].failed)
         => \A c \in GetCachedSuggestions(suggest.q[q].imageId) :
              c.natural # StaticAnalysis.natural

\* C38: a claim never reassigns ownership: at most one user is ever answered
\* success, the owner once set is never replaced, and when two users have
\* claimed the unowned edit, whatever the interleaving, the edit's userId is
\* the id of the one user answered success.
C38_OwnershipNotReassigned ==
  /\ Cardinality(account.granted) <= 1
  /\ Len(account.owners) <= 1
  /\ \A u \in account.granted : account.userId = u

====
